---- MODULE Spec2Model ----
(***************************************************************************)
(* Model of the dwellings pipeline of data_module.py:                      *)
(*   load_dwellings_csv -> add_growth_and_ma -> summarize_series           *)
(* A text cell is a sequence of one-character strings, so that the regex   *)
(* filter, the comma stripping and the integer parse are computed rather   *)
(* than assumed.  A float is a record [kind, num, den]: an exact rational  *)
(* num/den (kind "num"), an infinity of sign num (kind "inf"), NaN (kind   *)
(* "nan") or Python's None (kind "none"); float64 rounding is abstracted.  *)
(***************************************************************************)
EXTENDS Integers, Sequences, FiniteSets, TLC

VARIABLES file, pc, df, err, summary

vars == <<file, pc, df, err, summary>>

----------------------------------------------------------------------------
(* Bounds of the model *)

\* most data lines after the title line of an input file
MaxRows == 3
\* longest series handed directly to add_growth_and_ma
MaxN == 5

----------------------------------------------------------------------------
(* Text cells *)

\* a missing cell (pandas NaN in an object column); no text cell equals it
NA == <<"NaN">>

Digits == {"0", "1", "2", "3", "4", "5", "6", "7", "8", "9"}

Lowers == {"a", "b", "c", "d", "e", "f", "g", "h", "i", "j", "k", "l", "m",
           "n", "o", "p", "q", "r", "s", "t", "u", "v", "w", "x", "y", "z"}

Uppers == {"A", "B", "C", "D", "E", "F", "G", "H", "I", "J", "K", "L", "M",
           "N", "O", "P", "Q", "R", "S", "T", "U", "V", "W", "X", "Y", "Z"}

IsDigit(c) == c \in Digits

Alphas == Lowers \cup Uppers

IsAlpha(c) == c \in Alphas

DigitVal(c) ==
    CASE c = "0" -> 0 [] c = "1" -> 1 [] c = "2" -> 2 [] c = "3" -> 3
      [] c = "4" -> 4 [] c = "5" -> 5 [] c = "6" -> 6 [] c = "7" -> 7
      [] c = "8" -> 8 [] c = "9" -> 9

\* the letters that occur in month abbreviations, folded to lower case
Lower(c) ==
    CASE c = "J" -> "j" [] c = "F" -> "f" [] c = "M" -> "m" [] c = "A" -> "a"
      [] c = "S" -> "s" [] c = "O" -> "o" [] c = "N" -> "n" [] c = "D" -> "d"
      [] c = "E" -> "e" [] c = "B" -> "b" [] c = "R" -> "r" [] c = "P" -> "p"
      [] c = "Y" -> "y" [] c = "U" -> "u" [] c = "L" -> "l" [] c = "G" -> "g"
      [] c = "C" -> "c" [] c = "T" -> "t" [] c = "V" -> "v"
      [] OTHER -> c

----------------------------------------------------------------------------
(* pd.read_csv(path, skiprows=1, names=[3 columns], usecols=[0,1,2],       *)
(*             dtype=str)                                                  *)

\* an empty field is read as a missing value
ReadCell(c) == IF c = <<>> THEN NA ELSE c

\* a line of up to three fields becomes a row of three cells, short lines
\* padded with missing values
ReadLine(l) ==
    [Period |-> IF Len(l) >= 1 THEN ReadCell(l[1]) ELSE NA,
     Trend  |-> IF Len(l) >= 2 THEN ReadCell(l[2]) ELSE NA,
     SA     |-> IF Len(l) >= 3 THEN ReadCell(l[3]) ELSE NA]

RECURSIVE ReadLines(_)
\* blank lines are skipped
ReadLines(ls) ==
    IF ls = <<>> THEN <<>>
    ELSE IF Head(ls) = <<>> THEN ReadLines(Tail(ls))
    ELSE <<ReadLine(Head(ls))>> \o ReadLines(Tail(ls))

\* skiprows=1 drops the first line whatever it holds
ReadCsv(ls) == IF ls = <<>> THEN <<>> ELSE ReadLines(Tail(ls))

----------------------------------------------------------------------------
(* Row filter: df["Period"].str.match(r"^[A-Za-z]{3}-\d{2}$", na=False)    *)

PeriodLike(c) ==
    /\ c # NA
    /\ Len(c) = 6
    /\ IsAlpha(c[1]) /\ IsAlpha(c[2]) /\ IsAlpha(c[3])
    /\ c[4] = "-"
    /\ IsDigit(c[5]) /\ IsDigit(c[6])

RECURSIVE FilterRows(_)
FilterRows(rows) ==
    IF rows = <<>> THEN <<>>
    ELSE IF PeriodLike(Head(rows).Period)
         THEN <<Head(rows)>> \o FilterRows(Tail(rows))
         ELSE FilterRows(Tail(rows))

----------------------------------------------------------------------------
(* Numeric coercion: .str.replace(",", "", regex=False).astype(int)        *)

RECURSIVE StripCommas(_)
StripCommas(c) ==
    IF c = NA THEN NA
    ELSE IF c = <<>> THEN <<>>
    ELSE IF Head(c) = "," THEN StripCommas(Tail(c))
    ELSE <<Head(c)>> \o StripCommas(Tail(c))

AllDigits(s) == Len(s) >= 1 /\ \A i \in 1..Len(s) : IsDigit(s[i])

\* int(str) accepts an optional sign followed by decimal digits
IntLiteral(s) ==
    /\ s # NA
    /\ Len(s) >= 1
    /\ IF s[1] \in {"-", "+"} THEN AllDigits(Tail(s)) ELSE AllDigits(s)

RECURSIVE DigitsValue(_)
DigitsValue(s) ==
    IF s = <<>> THEN 0
    ELSE 10 * DigitsValue(SubSeq(s, 1, Len(s) - 1)) + DigitVal(s[Len(s)])

IntValue(s) ==
    IF s[1] = "-" THEN 0 - DigitsValue(Tail(s))
    ELSE IF s[1] = "+" THEN DigitsValue(Tail(s))
    ELSE DigitsValue(s)

\* astype(int) raises for the whole column as soon as one element fails
AsTypeIntFails(rows) ==
    \E i \in 1..Len(rows) :
        \/ ~IntLiteral(StripCommas(rows[i].Trend))
        \/ ~IntLiteral(StripCommas(rows[i].SA))

----------------------------------------------------------------------------
(* Period -> Date: pd.to_datetime(df["Period"], format="%b-%y")            *)

MonthNames ==
    << <<"j","a","n">>, <<"f","e","b">>, <<"m","a","r">>, <<"a","p","r">>,
       <<"m","a","y">>, <<"j","u","n">>, <<"j","u","l">>, <<"a","u","g">>,
       <<"s","e","p">>, <<"o","c","t">>, <<"n","o","v">>, <<"d","e","c">> >>

MonthKey(c) == <<Lower(c[1]), Lower(c[2]), Lower(c[3])>>

\* %b matches a month abbreviation, ignoring case
MonthOk(c) == \E m \in 1..12 : MonthNames[m] = MonthKey(c)

MonthOf(c) == CHOOSE m \in 1..12 : MonthNames[m] = MonthKey(c)

TwoDigits(c) == 10 * DigitVal(c[5]) + DigitVal(c[6])

\* %y: 00..68 are years 2000..2068, 69..99 are years 1969..1999
YearOf(c) == IF TwoDigits(c) <= 68 THEN 2000 + TwoDigits(c)
             ELSE 1900 + TwoDigits(c)

\* to_datetime raises for the whole column as soon as one label fails
ToDatetimeFails(rows) == \E i \in 1..Len(rows) : ~MonthOk(rows[i].Period)

\* a date, day 1 of the month
ToDatetime(c) == [year |-> YearOf(c), month |-> MonthOf(c)]

DateKey(d) == 12 * d.year + d.month

\* one row of the cleaned frame: Period, Trend, Seasonally adjusted, Date,
\* Year, Quarter
FrameRow(period, trend, sa) ==
    LET date == ToDatetime(period)
    IN [Period  |-> period,
        Trend   |-> trend,
        SA      |-> sa,
        Date    |-> date,
        Year    |-> date.year,
        Quarter |-> <<date.year, ((date.month - 1) \div 3) + 1>>]

CleanRow(r) ==
    FrameRow(r.Period, IntValue(StripCommas(r.Trend)), IntValue(StripCommas(r.SA)))

CleanRows(rows) == [i \in 1..Len(rows) |-> CleanRow(rows[i])]

----------------------------------------------------------------------------
(* df.sort_values("Date").reset_index(drop=True)                           *)

IsSortedByDate(s) ==
    \A i \in 1..(Len(s) - 1) : DateKey(s[i].Date) <= DateKey(s[i + 1].Date)

IndexOrders(n) ==
    {p \in [1..n -> 1..n] : \A i, j \in 1..n : i # j => p[i] # p[j]}

\* the sort left out: the rows stay in file order
SortValuesUnsorted(rows) == {rows}

\* the default sort is not stable: any ascending arrangement may come out
SortValues(rows) ==
    {s \in {[i \in 1..Len(rows) |-> rows[p[i]]] : p \in IndexOrders(Len(rows))} :
        IsSortedByDate(s)}

----------------------------------------------------------------------------
(* Floats *)

NaN == [kind |-> "nan", num |-> 0, den |-> 0]

None == [kind |-> "none", num |-> 0, den |-> 0]

Inf(sign) == [kind |-> "inf", num |-> sign, den |-> 0]

Num(n, d) == [kind |-> "num", num |-> n, den |-> d]

\* float division a / b of two integers: x/0 is an infinity, 0/0 is NaN
FloatDiv(a, b) ==
    IF b # 0 THEN Num(a, b)
    ELSE IF a > 0 THEN Inf(1)
    ELSE IF a < 0 THEN Inf(-1)
    ELSE NaN

\* x - k for an integer k
FloatSub(x, k) ==
    IF x.kind = "num" THEN Num(x.num - k * x.den, x.den) ELSE x

\* x * k for a positive integer k
FloatMul(x, k) ==
    IF x.kind = "num" THEN Num(x.num * k, x.den) ELSE x

\* pd.notna
NotNa(x) == x.kind # "nan"

----------------------------------------------------------------------------
(* add_growth_and_ma *)

\* rolling(4, ...): size of the moving-average window
Window == 4

\* pct_change(4): a year is four quarters
YearLag == 4

\* the change always taken against the previous element
PctChangePrevious(v, periods) ==
    [i \in 1..Len(v) |->
        IF i <= periods THEN NaN
        ELSE FloatSub(FloatDiv(v[i], v[i - 1]), 1)]

\* Series.pct_change(periods): v / v.shift(periods) - 1
PctChange(v, periods) ==
    [i \in 1..Len(v) |->
        IF i <= periods THEN NaN
        ELSE FloatSub(FloatDiv(v[i], v[i - periods]), 1)]

\* the growth columns: pct_change(periods) * 100
GrowthPct(v, periods) ==
    [i \in 1..Len(v) |-> FloatMul(PctChange(v, periods)[i], 100)]

RECURSIVE RollSum(_, _, _)
\* the running sum of the window ending at i: add v[i], drop v[i - w]
RollSum(v, w, i) ==
    IF i = 0 THEN 0
    ELSE RollSum(v, w, i - 1) + v[i] - (IF i > w THEN v[i - w] ELSE 0)

\* the number of observations in the window ending at i
RollCount(w, i) == IF i > w THEN w ELSE i

\* a window that is not full yields no value (min_periods left at w)
RollingMeanFullWindow(v, w, minp) ==
    [i \in 1..Len(v) |->
        IF RollCount(w, i) >= w
        THEN Num(RollSum(v, w, i), RollCount(w, i))
        ELSE NaN]

\* Series.rolling(w, min_periods=minp).mean()
RollingMean(v, w, minp) ==
    [i \in 1..Len(v) |->
        IF RollCount(w, i) >= minp
        THEN Num(RollSum(v, w, i), RollCount(w, i))
        ELSE NaN]

Column(d, name) == [i \in 1..Len(d) |-> d[i][name]]

\* the frame with the six derived columns added
WithMetrics(d) ==
    LET trend     == Column(d, "Trend")
        sa        == Column(d, "SA")
        trend_qoq == GrowthPct(trend, 1)
        sa_qoq    == GrowthPct(sa, 1)
        trend_yoy == GrowthPct(trend, YearLag)
        sa_yoy    == GrowthPct(sa, YearLag)
        trend_ma  == RollingMean(trend, Window, 1)
        sa_ma     == RollingMean(sa, Window, 1)
    IN [i \in 1..Len(d) |->
        [Period        |-> d[i].Period,
         Trend         |-> d[i].Trend,
         SA            |-> d[i].SA,
         Date          |-> d[i].Date,
         Year          |-> d[i].Year,
         Quarter       |-> d[i].Quarter,
         Trend_qoq_pct |-> trend_qoq[i],
         SA_qoq_pct    |-> sa_qoq[i],
         Trend_yoy_pct |-> trend_yoy[i],
         SA_yoy_pct    |-> sa_yoy[i],
         Trend_4q_ma   |-> trend_ma[i],
         SA_4q_ma      |-> sa_ma[i]]]

----------------------------------------------------------------------------
(* summarize_series *)

\* float(x) if pd.notna(x) else None
Nullable(x) == IF NotNa(x) THEN x ELSE None

RECURSIVE ArgMax(_, _)
\* scan v[1..n] keeping the index of the largest element seen so far; a
\* later element replaces it only when strictly larger
ArgMax(v, n) ==
    IF n = 1 THEN 1
    ELSE IF v[n] > v[ArgMax(v, n - 1)] THEN n
    ELSE ArgMax(v, n - 1)

RECURSIVE ArgMin(_, _)
ArgMin(v, n) ==
    IF n = 1 THEN 1
    ELSE IF v[n] < v[ArgMin(v, n - 1)] THEN n
    ELSE ArgMin(v, n - 1)

\* the last occurrence of the maximum
IdxMaxLast(v) ==
    CHOOSE i \in 1..Len(v) :
        /\ \A j \in 1..Len(v) : v[j] <= v[i]
        /\ \A j \in (i + 1)..Len(v) : v[j] < v[i]

\* Series.idxmax(): label of the first occurrence of the maximum
IdxMax(v) == ArgMax(v, Len(v))

\* Series.idxmin(): label of the first occurrence of the minimum
IdxMin(v) == ArgMin(v, Len(v))

\* Series.max(), Series.min()
SeriesMax(v) == CHOOSE x \in {v[i] : i \in 1..Len(v)} :
                    \A i \in 1..Len(v) : v[i] <= x

SeriesMin(v) == CHOOSE x \in {v[i] : i \in 1..Len(v)} :
                    \A i \in 1..Len(v) : v[i] >= x

NoSummary == [latest_period |-> NA]

SummaryOf(d) ==
    LET latest == d[Len(d)]
        trend  == Column(d, "Trend")
        sa     == Column(d, "SA")
    IN [latest_period       |-> latest.Period,
        latest_trend        |-> latest.Trend,
        latest_sa           |-> latest.SA,
        trend_qoq_pct       |-> Nullable(latest.Trend_qoq_pct),
        sa_qoq_pct          |-> Nullable(latest.SA_qoq_pct),
        trend_yoy_pct       |-> Nullable(latest.Trend_yoy_pct),
        sa_yoy_pct          |-> Nullable(latest.SA_yoy_pct),
        trend_peak          |-> SeriesMax(trend),
        trend_peak_period   |-> d[IdxMax(trend)].Period,
        sa_peak             |-> SeriesMax(sa),
        sa_peak_period      |-> d[IdxMax(sa)].Period,
        trend_trough        |-> SeriesMin(trend),
        trend_trough_period |-> d[IdxMin(trend)].Period,
        sa_trough           |-> SeriesMin(sa),
        sa_trough_period    |-> d[IdxMin(sa)].Period]

----------------------------------------------------------------------------
(* Inputs *)

TitleLine == << <<"T","o","t","a","l"," ","d","w","e","l","l","i","n","g","s">> >>

HeaderLine == << <<"P","e","r","i","o","d">>, <<"T","r","e","n","d">>, <<"S","A">> >>

\* the lines an input file is made of: fields of text, as csv splits them
Catalogue ==
    { << <<"M","a","r","-","1","7">>, <<"1",",","0","0","0">>, <<"9","5","0">> >>,
      << <<"J","u","n","-","1","7">>, <<"1",",","1","0","0">>, <<"1",",","0","0","0">> >>,
      << <<"M","a","r","-","1","7">>, <<"2","0">>, <<"3","0">> >>,
      << <<"d","e","c","-","9","9">>, <<"5">>, <<"7">> >>,
      << <<"S","e","p","-","6","8">>, <<"0">>, <<"3">> >>,
      << <<"T","O","T","A","L">>, <<>>, <<>> >>,
      HeaderLine,
      << <<"S","o","u","r","c","e",":"," ","A","B","S">> >>,
      <<>>,
      << <<"S","e","p","-","1","7">>, <<"a","b","c">>, <<"5">> >>,
      << <<"J","u","n","-","1","8">>, <<>>, <<"1","2">> >>,
      << <<"X","y","z","-","1","7">>, <<"1">>, <<"2">> >> }

\* a missing file and an empty one
MissingFile == [exists |-> FALSE, lines |-> <<>>]

EmptyFile == [exists |-> TRUE, lines |-> <<>>]

\* the files made of a title line followed by n lines
Files(n) ==
    {[exists |-> TRUE, lines |-> <<TitleLine>> \o ls] : ls \in [1..n -> Catalogue]}

\* no file: the frame is handed to add_growth_and_ma by its caller
NoFile == [exists |-> FALSE, lines |-> <<>>]

DigitChar(n) == CHOOSE c \in Digits : DigitVal(c) = n

QuarterMonths == << <<"M","a","r">>, <<"J","u","n">>, <<"S","e","p">>, <<"D","e","c">> >>

\* the label of the i-th quarter from Mar-17 on
QuarterLabel(i) ==
    LET y == 17 + ((i - 1) \div 4)
    IN QuarterMonths[((i - 1) % 4) + 1] \o <<"-", DigitChar(y \div 10), DigitChar(y % 10)>>

\* the rows of the first MaxN quarters, values still to be filled in
QuarterRows == [i \in 1..MaxN |-> FrameRow(QuarterLabel(i), 0, 0)]

TrendValues == {0, 1, 2}

SAValues == {0, 2}

\* the cleaned frame of n consecutive quarters with the values t and s, as
\* load_dwellings_csv returns it
Frame(n, t, s) ==
    [i \in 1..n |-> [QuarterRows[i] EXCEPT !.Trend = t[i], !.SA = s[i]]]

----------------------------------------------------------------------------
(* The pipeline *)

Init ==
    /\ \/ file \in {MissingFile, EmptyFile}
       \/ \E n \in 0..MaxRows : file \in Files(n)
    /\ pc = "start"
    /\ df = <<>>
    /\ err = "none"
    /\ summary = NoSummary

InitMetrics ==
    /\ file = NoFile
    /\ pc = "loaded"
    /\ \E n \in 0..MaxN :
          \E t \in [1..n -> TrendValues], s \in [1..n -> SAValues] :
              df = Frame(n, t, s)
    /\ err = "none"
    /\ summary = NoSummary

load_dwellings_csv ==
    /\ pc = "start"
    /\ IF ~file.exists
       THEN /\ pc' = "load_failed"
            /\ err' = "FileNotFoundError"
            /\ df' = df
       ELSE LET rows == FilterRows(ReadCsv(file.lines))
            IN IF AsTypeIntFails(rows) \/ ToDatetimeFails(rows)
               THEN /\ pc' = "load_failed"
                    /\ err' = "ValueError"
                    /\ df' = df
               ELSE /\ pc' = "loaded"
                    /\ err' = "none"
                    /\ df' \in SortValues(CleanRows(rows))
    /\ UNCHANGED <<file, summary>>

add_growth_and_ma ==
    /\ pc = "loaded"
    /\ pc' = "derived"
    /\ df' = WithMetrics(df)
    /\ UNCHANGED <<file, err, summary>>

summarize_series ==
    /\ pc = "derived"
    /\ IF Len(df) = 0
       THEN /\ pc' = "summary_failed"
            /\ err' = "IndexError"
            /\ summary' = summary
       ELSE /\ pc' = "summarized"
            /\ err' = "none"
            /\ summary' = SummaryOf(df)
    /\ UNCHANGED <<file, df>>

Next == load_dwellings_csv \/ add_growth_and_ma \/ summarize_series

Spec == Init /\ [][Next]_vars

NextMetrics == add_growth_and_ma \/ summarize_series

SpecMetrics == InitMetrics /\ [][NextMetrics]_vars

----------------------------------------------------------------------------
(* Vocabulary of the properties *)

LoadReturned == pc \in {"loaded", "derived", "summarized", "summary_failed"}

LoadEnded == pc # "start"

Derived == pc \in {"derived", "summarized"}

\* the rows of the input after its title line
InputRows == ReadCsv(file.lines)

\* a row whose numeric cells are well-formed integers once commas are gone
NumericOk(r) == IntLiteral(StripCommas(r.Trend)) /\ IntLiteral(StripCommas(r.SA))

\* a valid data row: an MMM-YY first cell and two well-formed integer cells
ValidRow(r) == PeriodLike(r.Period) /\ NumericOk(r)

Triple(r) == <<r.Period, IntValue(StripCommas(r.Trend)), IntValue(StripCommas(r.SA))>>

Occurrences(seq, x) == Cardinality({i \in 1..Len(seq) : seq[i] = x})

\* the triples of the valid rows of the input, with their multiplicity
ValidCount(x) ==
    Cardinality({i \in 1..Len(InputRows) :
                    ValidRow(InputRows[i]) /\ Triple(InputRows[i]) = x})

ResultCount(x) ==
    Cardinality({i \in 1..Len(df) : <<df[i].Period, df[i].Trend, df[i].SA>> = x})

ResultIsExactlyValidRows ==
    /\ \A i \in 1..Len(InputRows) :
          ValidRow(InputRows[i]) =>
              ResultCount(Triple(InputRows[i])) = ValidCount(Triple(InputRows[i]))
    /\ \A i \in 1..Len(df) :
          ValidCount(<<df[i].Period, df[i].Trend, df[i].SA>>) >= 1

\* x is the finite number n / d
IsRatio(x, n, d) == d # 0 /\ x.kind = "num" /\ x.num * d = n * x.den

\* x is (a / b - 1) * 100
IsGrowth(x, a, b) == IsRatio(x, 100 * (a - b), b)

\* what float arithmetic gives for a zero base
IsZeroBaseGrowth(x, a) ==
    IF a = 0 THEN x.kind = "nan" ELSE x.kind = "inf"

RECURSIVE SumRange(_, _, _)
SumRange(v, lo, hi) == IF lo > hi THEN 0 ELSE v[hi] + SumRange(v, lo, hi - 1)

Max(a, b) == IF a >= b THEN a ELSE b

----------------------------------------------------------------------------
(* C1: an input from which no row survives filtering and coercion makes    *)
(* load_dwellings_csv fail with a DataLoadError; it never returns an       *)
(* empty series.                                                           *)

C1_ZeroRowsFailWithDataLoadError ==
    (LoadEnded /\ file.exists
        /\ (\A i \in 1..Len(InputRows) : ~ValidRow(InputRows[i])))
    => (pc = "load_failed" /\ err = "DataLoadError")

----------------------------------------------------------------------------
(* C2: a row with an MMM-YY period cell and a missing or non-integer       *)
(* numeric cell is excluded alone; the load still returns the other valid  *)
(* rows and does not fail as a whole.  Stated for the inputs that hold at  *)
(* least one valid row beside the failing one.                             *)

C2_CoercionFailureIsPerRow ==
    (LoadEnded /\ file.exists
        /\ (\E i \in 1..Len(InputRows) :
               PeriodLike(InputRows[i].Period) /\ ~NumericOk(InputRows[i]))
        /\ (\E j \in 1..Len(InputRows) : ValidRow(InputRows[j])))
    => (LoadReturned /\ ResultIsExactlyValidRows)

----------------------------------------------------------------------------
(* C3: the returned series holds exactly the valid data rows of the input, *)
(* wherever they stand; a row whose first cell does not match MMM-YY       *)
(* neither appears nor causes a failure.  Stated for the inputs in which   *)
(* every MMM-YY row has well-formed numeric cells (C2 is about the others) *)
(* and at least one row is valid (C1 is about the others).                 *)

C3_ResultIsExactlyTheValidRows ==
    (LoadEnded /\ file.exists
        /\ (\A i \in 1..Len(InputRows) :
               PeriodLike(InputRows[i].Period) => NumericOk(InputRows[i]))
        /\ (\E j \in 1..Len(InputRows) : ValidRow(InputRows[j])))
    => (LoadReturned /\ ResultIsExactlyValidRows)

----------------------------------------------------------------------------
(* C4: the series load_dwellings_csv returns is ascending by date and is a *)
(* permutation of the rows that survived: rows with the same period label  *)
(* all survive, nothing is deduplicated.                                   *)

C4_SortedPermutation ==
    pc = "loaded" =>
        LET kept == CleanRows(FilterRows(InputRows))
        IN /\ IsSortedByDate(df)
           /\ Len(df) = Len(kept)
           /\ \A i \in 1..Len(kept) :
                 Occurrences(df, kept[i]) = Occurrences(kept, kept[i])

C4_Witness ==
    /\ pc = "loaded"
    /\ \E i, j \in 1..Len(df) : i # j /\ df[i].Period = df[j].Period
    /\ ~IsSortedByDate(CleanRows(FilterRows(InputRows)))

----------------------------------------------------------------------------
(* C10: every label MMM-YY gets the year 2000+YY, and the ascending sort   *)
(* orders the rows by (2000+YY, month), for YY from 69 to 99 too.          *)

C10_YearIs2000PlusYY ==
    pc = "loaded" =>
        /\ \A i \in 1..Len(df) : df[i].Year = 2000 + TwoDigits(df[i].Period)
        /\ \A i \in 1..(Len(df) - 1) :
              12 * (2000 + TwoDigits(df[i].Period)) + MonthOf(df[i].Period)
                <= 12 * (2000 + TwoDigits(df[i + 1].Period)) + MonthOf(df[i + 1].Period)

----------------------------------------------------------------------------
(* C5: add_growth_and_ma keeps the length and raises no error; the         *)
(* quarter-over-quarter growth is undefined at index 0 and is               *)
(* (v[i]/v[i-1] - 1)*100 for i >= 1; the year-over-year growth is undefined *)
(* for i < 4 and is (v[i]/v[i-4] - 1)*100 for i >= 4.  The quotient is a    *)
(* float quotient: on a zero base it is NaN when v[i] is zero too and       *)
(* infinite otherwise.  Indices below are 1-based.                          *)

GrowthByLag(v, g, lag) ==
    \A i \in 1..Len(v) :
        IF i <= lag THEN g[i].kind = "nan"
        ELSE IF v[i - lag] # 0 THEN IsGrowth(g[i], v[i], v[i - lag])
        ELSE IsZeroBaseGrowth(g[i], v[i])

\* the growth is defined (not NaN) at every index past the lag
DefinedPastLag(g, lag) == \A i \in 1..Len(g) : i > lag => g[i].kind # "nan"

GrowthColumns(d, e) ==
    /\ Len(e) = Len(d)
    /\ GrowthByLag(Column(d, "Trend"), Column(e, "Trend_qoq_pct"), 1)
    /\ GrowthByLag(Column(d, "SA"), Column(e, "SA_qoq_pct"), 1)
    /\ GrowthByLag(Column(d, "Trend"), Column(e, "Trend_yoy_pct"), 4)
    /\ GrowthByLag(Column(d, "SA"), Column(e, "SA_yoy_pct"), 4)

(* C5 as stated: moreover the year-over-year growth of both columns is     *)
(* defined at every i >= 4.                                                *)

C5_YoyDefinedFromIndex4 ==
    [][add_growth_and_ma =>
        /\ pc' = "derived" /\ err' = "none"
        /\ GrowthColumns(df, df')
        /\ DefinedPastLag(Column(df', "Trend_yoy_pct"), 4)
        /\ DefinedPastLag(Column(df', "SA_yoy_pct"), 4)]_vars

(* C5 amended: the year-over-year growth at i >= 4 is defined unless v[i]  *)
(* and v[i-4] are both zero, where it is NaN.                              *)

C5_GrowthByLag ==
    [][add_growth_and_ma =>
        /\ pc' = "derived" /\ err' = "none"
        /\ GrowthColumns(df, df')]_vars

C5_Witness ==
    /\ pc = "derived"
    /\ Len(df) >= 5
    /\ df[1].Trend # 0 /\ df[5].Trend # df[1].Trend
    /\ df[5].Trend_yoy_pct.kind = "num"
    /\ df[4].Trend_yoy_pct.kind = "nan"
    /\ df[2].Trend_qoq_pct.kind = "num"

----------------------------------------------------------------------------
(* C6: the moving average of each column at index i is the arithmetic mean *)
(* of the values at indices max(0, i-3) .. i; the window shrinks at the    *)
(* start of the series and the value is never undefined.                   *)

MeanOfTrailingFour(v, ma) ==
    \A i \in 1..Len(v) :
        IsRatio(ma[i], SumRange(v, Max(1, i - 3), i), i - Max(1, i - 3) + 1)

C6_MovingAverageShrinksAtStart ==
    Derived =>
        /\ MeanOfTrailingFour(Column(df, "Trend"), Column(df, "Trend_4q_ma"))
        /\ MeanOfTrailingFour(Column(df, "SA"), Column(df, "SA_4q_ma"))

C6_Witness ==
    /\ pc = "derived"
    /\ Len(df) >= 5
    /\ df[1].Trend # df[5].Trend
    /\ df[1].Trend_4q_ma = Num(df[1].Trend, 1)
    /\ df[5].Trend_4q_ma.den = 4
    /\ df[3].SA_4q_ma.den = 3

----------------------------------------------------------------------------
(* C7: summarize_series reports the maximum and the minimum of each column *)
(* with the period of the first element attaining it.                      *)

FirstAttaining(v, x, period) ==
    \E i \in 1..Len(v) :
        /\ v[i] = x
        /\ \A j \in 1..(i - 1) : v[j] # x
        /\ df[i].Period = period

IsMaximum(v, x) == \A i \in 1..Len(v) : v[i] <= x

IsMinimum(v, x) == \A i \in 1..Len(v) : v[i] >= x

C7_ExtremaAtFirstOccurrence ==
    pc = "summarized" =>
        LET trend == Column(df, "Trend")
            sa    == Column(df, "SA")
        IN /\ IsMaximum(trend, summary.trend_peak)
           /\ FirstAttaining(trend, summary.trend_peak, summary.trend_peak_period)
           /\ IsMaximum(sa, summary.sa_peak)
           /\ FirstAttaining(sa, summary.sa_peak, summary.sa_peak_period)
           /\ IsMinimum(trend, summary.trend_trough)
           /\ FirstAttaining(trend, summary.trend_trough, summary.trend_trough_period)
           /\ IsMinimum(sa, summary.sa_trough)
           /\ FirstAttaining(sa, summary.sa_trough, summary.sa_trough_period)

C7_Witness ==
    /\ pc = "summarized"
    /\ Len(df) >= 4
    /\ df[2].Trend = summary.trend_peak /\ df[3].Trend = summary.trend_peak
    /\ df[1].Trend < summary.trend_peak
    /\ summary.trend_peak_period = df[2].Period
    /\ df[2].SA = summary.sa_trough /\ df[4].SA = summary.sa_trough
    /\ df[1].SA > summary.sa_trough

----------------------------------------------------------------------------
(* C8: summarize_series on an empty series fails with an EmptySeriesError, *)
(* and it fails in no other case.                                          *)

C8_EmptySeriesError ==
    /\ pc = "summary_failed" => (Len(df) = 0 /\ err = "EmptySeriesError")
    /\ pc = "summarized" => Len(df) > 0

----------------------------------------------------------------------------
(* C9: when the base of a growth of the latest element is zero, the        *)
(* summary reports that growth as None, never as an infinite float.        *)

NoneOnZeroBase(v, lag, reported) ==
    (Len(v) > lag /\ v[Len(v) - lag] = 0) => reported = None

C9_ZeroBaseIsNone ==
    pc = "summarized" =>
        /\ NoneOnZeroBase(Column(df, "Trend"), 1, summary.trend_qoq_pct)
        /\ NoneOnZeroBase(Column(df, "SA"), 1, summary.sa_qoq_pct)
        /\ NoneOnZeroBase(Column(df, "Trend"), 4, summary.trend_yoy_pct)
        /\ NoneOnZeroBase(Column(df, "SA"), 4, summary.sa_yoy_pct)

====
